---- MODULE Spec2Model ----
(***************************************************************************)
(* Bobby TV: the storage-bounded prefetch / rotation subsystem.            *)
(*                                                                         *)
(*   video_manager.py       VideoManager       (budgeted download, cleanup)*)
(*   stream_coordinator.py  StreamCoordinator  (now_playing / up_next)     *)
(*   obs_feeder.py          OBSFeeder          (fixed path, swap)          *)
(*                                                                         *)
(* All three work on the directory streaming_videos/.  Sizes are whole GB. *)
(***************************************************************************)
EXTENDS Integers, Sequences, FiniteSets, TLC

\* ------------------------------------------------------------- bounds
NumVideos == 3          \* identifiers in the catalog (media table)
MaxQueue == 3           \* cap on len(playlist['queue']): later downloads find no file

\* ---------------------------------------------- video_manager.py:19-22
MAX_STORAGE_GB == 40
MIN_FREE_SPACE_GB == 10
MAX_VIDEO_SIZE_GB == 10
VIDEOS_TO_MAINTAIN == 2

\* ------------------------------------------------------------ catalog
Catalog == 1..NumVideos
\* item_size of catalog entry v, in GB: 1, 2, 3, ...
ItemGB(v) == v
\* free disk space (GB) when the programs start
FreeChoices == {8, 12, 13, 40}

\* -------------------------------------------------------------- files
\* f"{identifier}_{safe_title}.mp4": one name per identifier
DownloadName(v) == <<"v1.mp4", "v2.mp4", "v3.mp4", "v4.mp4", "v5.mp4", "v6.mp4">>[v]
DownloadNames == {DownloadName(v) : v \in Catalog}
CurrentStream == "current_stream.mp4"
NextStream == "next_stream.mp4"
TempStream == "temp_stream.mp4"
StreamNames == {CurrentStream, NextStream, TempStream}
RootNames == DownloadNames \cup StreamNames
\* what initialize_stream moves to queue/, and prepare_next_video on to played/
QueueNames == DownloadNames \cup {TempStream}

\* A file: the video whose bytes it holds, whether all of them have been
\* written, and the rank of its st_mtime among the files on disk.
NoFile == [vid |-> 0, done |-> FALSE, mt |-> 0]
Exists(f) == f.vid # 0
SizeGB(f) == IF f.vid = 0 THEN 0 ELSE IF f.done THEN ItemGB(f.vid) ELSE ItemGB(f.vid) \div 2
EmptyDir(names) == [n \in names |-> NoFile]
Present(dir) == {n \in DOMAIN dir : Exists(dir[n])}

VARIABLES
    disk,        \* [root, queue, played: name -> file; free: GB free on the volume]
    playlist,    \* playlist.json: [current, queue, played, downloaded]
    vm,          \* the running video_manager.py process (one at a time)
    clock,       \* how far the current video has played: "early", "late", "ending"
    coord,       \* StreamCoordinator.state
    cmain,       \* StreamCoordinator.run_coordinator: where the main thread is
    prep,        \* prepare_next_video calls: 0 is the main thread's, 1.. the threads'
    lock,        \* StreamCoordinator.download_lock: its holder, or NoThread
    cli,         \* python stream_coordinator.py cleanup: the files still to visit
    state_file,  \* streaming_state.json: [ok: it parses, state: what it holds]
    fstate,      \* OBSFeeder.state
    fmain,       \* OBSFeeder.run_feeder: where the main thread is
    fprep,       \* OBSFeeder.prepare_next_video calls: 0 is initialize_stream's
    fcaller      \* the OBSFeeder thread (0: main) whose video_manager.py runs

coordVars == <<coord, cmain, prep, lock, cli, state_file>>
feederVars == <<fstate, fmain, fprep, fcaller>>
notVM == <<clock, coordVars, feederVars>>
vars == <<disk, playlist, vm, clock, coordVars, feederVars>>

RECURSIVE SumGB(_, _)
SumGB(dir, names) ==
    IF names = {} THEN 0
    ELSE LET n == CHOOSE x \in names : TRUE
         IN SizeGB(dir[n]) + SumGB(dir, names \ {n})

\* st_mtime ranks: 1 is the oldest.  played/ files are never read again.
Mts(d) == {d.root[n].mt : n \in Present(d.root)} \cup {d.queue[n].mt : n \in Present(d.queue)}
Rank(m, S) == Cardinality({x \in S : x < m}) + 1
Renorm(dir, S) == [n \in DOMAIN dir |->
    IF Exists(dir[n]) THEN [dir[n] EXCEPT !.mt = Rank(@, S)] ELSE NoFile]
Forget(dir) == [n \in DOMAIN dir |->
    IF Exists(dir[n]) THEN [dir[n] EXCEPT !.mt = 0] ELSE NoFile]
Normalize(d) == [root |-> Renorm(d.root, Mts(d)), queue |-> Renorm(d.queue, Mts(d)),
                 played |-> Forget(d.played), free |-> d.free]
Now(d) == Cardinality(Mts(d)) + 1

\* ------------------------------------------ VideoManager.get_storage_info
free_gb(d) == d.free
video_gb(d) == SumGB(d.root, Present(d.root))
video_count(d) == Cardinality(Present(d.root))
can_download(d) == free_gb(d) > MIN_FREE_SPACE_GB /\ video_gb(d) < MAX_STORAGE_GB

\* sorted(video_dir.glob('*.mp4'), key=st_mtime): every order sorted() can
\* return (files of equal mtime keep their glob order, which is arbitrary)
RECURSIVE Perms(_)
Perms(S) ==
    IF S = {} THEN {<<>>}
    ELSE UNION {{<<x>> \o p : p \in Perms(S \ {x})} : x \in S}
\* the glob's order, left unsorted
GlobOrder(dir) == Perms(Present(dir))
SortedByMtime(dir) ==
    {s \in Perms(Present(dir)) :
        \A i \in 1..(Len(s) - 1) : dir[s[i]].mt <= dir[s[i + 1]].mt}

\* ------------------------------------------ VideoManager.find_next_videos
\* a cut that keeps the head of the list instead of its tail
Oldest(s, k) == IF Len(s) <= k THEN s ELSE SubSeq(s, 1, k)
Last(s, k) == IF Len(s) <= k THEN s ELSE SubSeq(s, Len(s) - k + 1, Len(s))
Range(s) == {s[i] : i \in 1..Len(s)}
Min(a, b) == IF a < b THEN a ELSE b
Max(a, b) == IF a > b THEN a ELSE b
Eligible(pl) ==
    {v \in Catalog : ItemGB(v) > 0 /\ ItemGB(v) < MAX_VIDEO_SIZE_GB
                     /\ v \notin Range(Last(pl.played, 100))}
\* ORDER BY RANDOM() LIMIT count
find_next_videos(pl, count) ==
    {s \in UNION {Perms(T) : T \in SUBSET Eligible(pl)} :
        Len(s) = Min(count, Cardinality(Eligible(pl)))}

VMIdle == [pc |-> "idle", cmd |-> "", count |-> 0, videos |-> <<>>, keep |-> "",
           deleted |-> FALSE, cands |-> <<>>, needed |-> 0, got |-> 0, item |-> 0]

\* the process is over (its locals with it): pc is "exit" or "crashed"
VMEnd(v, how) == [VMIdle EXCEPT !.pc = how, !.cmd = v.cmd]
\* cleanup_old_videos returns: its locals are gone
VMCleaned(v) == [v EXCEPT !.pc = "cleaned", !.videos = <<>>, !.keep = "", !.deleted = FALSE]

\* python video_manager.py <cmd>: VideoManager.__init__ / main
VMStart(cmd) ==
    /\ vm.pc = "idle"
    /\ vm' = [VMIdle EXCEPT !.pc = cmd, !.cmd = cmd]

\* maintain_library, lines 247-252: storage = self.get_storage_info()
VMMaintainBegin ==
    /\ vm.pc = "maintain"
    /\ vm' = [vm EXCEPT !.pc = "cleanup", !.count = video_count(disk)]
    /\ UNCHANGED <<disk, playlist>>
    /\ UNCHANGED notVM

CurrentFile(pl) ==
    IF pl.current # 0 /\ pl.current \in pl.downloaded THEN DownloadName(pl.current) ELSE ""

\* cleanup_old_videos, lines 194-212
VMCleanupBegin ==
    /\ vm.pc = "cleanup"
    /\ IF can_download(disk)
       THEN vm' = VMCleaned(vm)
       ELSE \E vs \in SortedByMtime(disk.root) :
                vm' = IF vs = <<>> THEN VMCleaned(vm)
                      ELSE [vm EXCEPT !.pc = "cleanup_loop", !.videos = vs,
                                      !.keep = CurrentFile(playlist), !.deleted = FALSE]
    /\ UNCHANGED <<disk, playlist>>
    /\ UNCHANGED notVM

\* the entry of playlist['downloaded'] whose file is `name`
IndexedAs(pl, name) == {v \in pl.downloaded : DownloadName(v) = name}

\* cleanup_old_videos, lines 214-240: one iteration of the loop
VMCleanupStep ==
    /\ vm.pc = "cleanup_loop"
    /\ LET video == Head(vm.videos)
           rest == Tail(vm.videos)
           after(v) == IF rest = <<>> THEN VMCleaned(v) ELSE [v EXCEPT !.videos = rest]
       IN IF vm.keep # "" /\ video = vm.keep
          THEN /\ vm' = after(vm)
               /\ UNCHANGED <<disk, playlist>>
          ELSE IF can_download(disk)
          THEN /\ vm' = VMCleaned(vm)
               /\ UNCHANGED <<disk, playlist>>
          ELSE IF ~Exists(disk.root[video])
          THEN /\ vm' = VMEnd(vm, "crashed")
               /\ UNCHANGED <<disk, playlist>>
          ELSE /\ disk' = Normalize([disk EXCEPT !.root[video] = NoFile,
                                                !.free = @ + SizeGB(disk.root[video])])
               /\ playlist' = [playlist EXCEPT !.downloaded = @ \ IndexedAs(playlist, video)]
               /\ vm' = after([vm EXCEPT !.deleted = TRUE])
    /\ UNCHANGED notVM

\* maintain_library, lines 257-268 (or main(), 'cleanup': the command is over)
VMAfterCleanup ==
    /\ vm.pc = "cleaned"
    /\ LET needed == Max(0, VIDEOS_TO_MAINTAIN - vm.count)
       IN IF vm.cmd = "cleanup" \/ needed = 0
          THEN vm' = VMEnd(vm, "exit")
          ELSE \E cs \in find_next_videos(playlist, needed * 2) :
                   vm' = IF cs = <<>> THEN VMEnd(vm, "exit")
                         ELSE [vm EXCEPT !.pc = "dl_loop", !.cands = cs,
                                         !.needed = needed, !.got = 0]
    /\ UNCHANGED <<disk, playlist>>
    /\ UNCHANGED notVM

\* maintain_library, lines 284-288, then the head of the for loop, 271-273
\* a loop that goes through every candidate, whatever was needed
DownloadAll(v, got) ==
    IF ~can_download(disk') \/ Tail(v.cands) = <<>>
    THEN VMEnd(v, "exit")
    ELSE [v EXCEPT !.pc = "dl_loop", !.cands = Tail(v.cands), !.got = got, !.item = 0]
AfterDownload(v, got) ==
    IF ~can_download(disk') \/ Tail(v.cands) = <<>> \/ got >= v.needed
    THEN VMEnd(v, "exit")
    ELSE [v EXCEPT !.pc = "dl_loop", !.cands = Tail(v.cands), !.got = got, !.item = 0]

\* download_video, lines 121-125: storage limit reached or low disk space
\* a download_video that starts writing without looking at the storage
VMDownloadUnchecked ==
    /\ vm.pc = "dl_loop"
    /\ ~can_download(disk)
    /\ LET id == Head(vm.cands)
           part == [vid |-> id, done |-> FALSE, mt |-> Now(disk)]
           name == DownloadName(id)
       IN disk' = Normalize([disk EXCEPT !.root[name] = part,
                                        !.free = @ + SizeGB(disk.root[name]) - SizeGB(part)])
    /\ vm' = [vm EXCEPT !.pc = "downloading", !.item = Head(vm.cands)]
    /\ UNCHANGED playlist
    /\ UNCHANGED notVM
VMDownloadReject ==
    /\ vm.pc = "dl_loop"
    /\ ~can_download(disk)
    /\ UNCHANGED <<disk, playlist>>
    /\ vm' = AfterDownload(vm, vm.got)
    /\ UNCHANGED notVM

\* download_video, lines 127-142: no metadata, or no suitable MP4
VMDownloadNoFile ==
    /\ vm.pc = "dl_loop"
    /\ can_download(disk)
    /\ UNCHANGED <<disk, playlist>>
    /\ vm' = AfterDownload(vm, vm.got)
    /\ UNCHANGED notVM

\* download_video, lines 159-171: open(output_file, 'wb') and the first chunks
VMDownloadStart ==
    /\ vm.pc = "dl_loop"
    /\ Len(playlist.queue) < MaxQueue
    /\ can_download(disk)
    /\ LET id == Head(vm.cands)
           name == DownloadName(id)
           part == [vid |-> id, done |-> FALSE, mt |-> Now(disk)]
       IN /\ disk' = Normalize([disk EXCEPT !.root[name] = part,
                                           !.free = @ + SizeGB(disk.root[name]) - SizeGB(part)])
          /\ vm' = [vm EXCEPT !.pc = "downloading", !.item = id]
    /\ UNCHANGED playlist
    /\ UNCHANGED notVM

\* download_video, lines 166-184: the last chunks, the index entry, save_playlist;
\* maintain_library, lines 279-282
VMDownloadFinish ==
    /\ vm.pc = "downloading"
    /\ LET id == vm.item
           name == DownloadName(id)
           full == [vid |-> id, done |-> TRUE, mt |-> Now(disk)]
       IN /\ disk' = IF Exists(disk.root[name])
                     THEN Normalize([disk EXCEPT !.root[name] = full,
                                        !.free = @ + SizeGB(disk.root[name]) - SizeGB(full)])
                     ELSE disk
          /\ playlist' = [playlist EXCEPT !.downloaded = @ \cup {id},
                                          !.queue = Append(@, id)]
    /\ vm' = AfterDownload(vm, vm.got + 1)
    /\ UNCHANGED notVM

\* download_video, lines 186-190: the request or a write raised
VMDownloadFail ==
    /\ vm.pc = "downloading"
    /\ LET name == DownloadName(vm.item)
       IN disk' = Normalize([disk EXCEPT !.root[name] = NoFile,
                                        !.free = @ + SizeGB(disk.root[name])])
    /\ UNCHANGED playlist
    /\ vm' = AfterDownload(vm, vm.got)
    /\ UNCHANGED notVM

VMStep ==
    \/ VMMaintainBegin
    \/ VMCleanupBegin
    \/ VMCleanupStep
    \/ VMAfterCleanup
    \/ VMDownloadReject
    \/ VMDownloadNoFile
    \/ VMDownloadStart
    \/ VMDownloadFinish
    \/ VMDownloadFail

\* video_manager.py has ended
VMOver == vm.pc \in {"exit", "crashed"}

\* VideoManager.load_playlist, lines 37-42, in an empty streaming_videos/
InitDisk(free) == [root |-> EmptyDir(RootNames), queue |-> EmptyDir(QueueNames),
                   played |-> EmptyDir(QueueNames), free |-> free]
InitPlaylist == [current |-> 0, queue |-> <<>>, played |-> <<>>, downloaded |-> {}]

NoThread == 0 - 1

\* ------------------------------------------- obs_feeder.py: OBSFeeder
MaxPrepThreads == 2
FThreads == 0..MaxPrepThreads
FPrepIdle == [pc |-> "idle", src |-> "", dst |-> ""]
\* OBSFeeder.load_state, lines 40-45
FeederIdleState == [current_video |-> "", current_duration |-> 0, started_at |-> FALSE,
                    total_played |-> 0]
FeederUnused ==
    /\ fstate = FeederIdleState
    /\ fmain = "off"
    /\ fprep = [t \in FThreads |-> FPrepIdle]
    /\ fcaller = NoThread

\* ------------------------------------------------- stream_coordinator.py
MaxThreads == 2
Threads == 0..MaxThreads
PrepIdle == [pc |-> "idle", cand |-> "", dur |-> 0]
\* StreamCoordinator.load_state, lines 30-36
CoordIdleState == [now_playing |-> "", now_dur |-> 0, up_next |-> "", up_dur |-> 0,
                   start_time |-> FALSE, history |-> 0]
\* save_state, lines 39-42: what json.dump leaves in the file
Saved(state) == [ok |-> TRUE, state |-> state]
\* the file after open(..., 'w') and before json.dump is through: json.load
\* of it raises
Torn == [ok |-> FALSE, state |-> CoordIdleState]
CoordUnused ==
    /\ coord = CoordIdleState
    /\ state_file = Saved(CoordIdleState)
    /\ cmain = "off"
    /\ prep = [t \in Threads |-> PrepIdle]
    /\ lock = NoThread
    /\ cli = {}

\* time passes: elapsed grows against now_playing's duration
Tick ==
    /\ clock # "ending"
    /\ clock' = IF clock = "early" THEN "late" ELSE "ending"

\* StreamCoordinator.get_video_duration: ffprobe of a complete file gives its
\* duration (1: positive); of a file still being written it may give nothing (0)
Durations(f) == IF ~Exists(f) THEN {0} ELSE IF f.done THEN {1} ELSE {0, 1}

CoordTick ==
    /\ coord.start_time
    /\ Tick
    /\ UNCHANGED <<disk, playlist, vm, coordVars, feederVars>>

\* download_next_video, lines 73-79: take the lock, run video_manager.py maintain
DNVCall(t) ==
    /\ lock = NoThread
    /\ VMStart("maintain")
    /\ lock' = t
    /\ UNCHANGED <<disk, playlist>>

\* download_next_video, lines 81-86: the subprocess is over; returncode == 0
DNVDone(t) == lock = t /\ vm.pc \in {"exit", "crashed"}
DNVResult == vm.pc = "exit"

\* run_coordinator, lines 223-228: the initial setup's two downloads
CoordSetupCall ==
    /\ cmain \in {"setup1", "setup2"}
    /\ DNVCall(0)
    /\ cmain' = IF cmain = "setup1" THEN "setup1_wait" ELSE "setup2_wait"
    /\ UNCHANGED <<clock, coord, prep, cli>>
    /\ UNCHANGED <<state_file, feederVars>>

CoordSetupReturn ==
    /\ cmain \in {"setup1_wait", "setup2_wait"}
    /\ DNVDone(0)
    /\ lock' = NoThread
    /\ vm' = VMIdle
    /\ cmain' = IF cmain = "setup1_wait" THEN "setup2" ELSE "setup_bind"
    /\ UNCHANGED <<disk, playlist, clock, coord, prep, cli>>
    /\ UNCHANGED <<state_file, feederVars>>

\* run_coordinator, lines 230-252: bind the two oldest files; without a
\* now_playing, line 251 raises outside the loop's try and the process ends
CoordSetupBind ==
    /\ cmain = "setup_bind"
    /\ \E vs \in SortedByMtime(disk.root) :
         IF Len(vs) >= 2
         THEN \E d1 \in Durations(disk.root[vs[1]]), d2 \in Durations(disk.root[vs[2]]) :
                /\ coord' = [coord EXCEPT !.now_playing = vs[1], !.now_dur = d1,
                                          !.up_next = vs[2], !.up_dur = d2,
                                          !.start_time = TRUE]
                /\ state_file' = Saved(coord')
                /\ clock' = "early"
                /\ cmain' = "loop"
         ELSE /\ cmain' = "dead"
              /\ UNCHANGED <<coord, clock, state_file>>
    /\ UNCHANGED <<disk, playlist, vm, prep, lock, cli>>
    /\ UNCHANGED feederVars

\* run_coordinator, line 224
CoordStart ==
    /\ cmain = "start"
    /\ cmain' = IF coord.now_playing = "" THEN "setup1" ELSE "loop"
    /\ UNCHANGED <<disk, playlist, vm, clock, coord, prep, lock, cli>>
    /\ UNCHANGED <<state_file, feederVars>>

\* a monitor_playback that only warns when no next video is ready
MonitorNoRetry ==
    /\ cmain = "loop"
    /\ cmain' = IF coord.now_playing # "" /\ coord.start_time /\ coord.now_dur > 0
                   /\ clock = "ending" /\ coord.up_next # ""
                THEN "rotate" ELSE "sleep"
    /\ UNCHANGED <<disk, playlist, vm, clock, coord, prep, lock, cli>>
    /\ UNCHANGED <<state_file, feederVars>>
\* monitor_playback, lines 186-216, as called at run_coordinator line 261
CoordMonitor ==
    /\ cmain = "loop"
    /\ cmain' = IF coord.now_playing # "" /\ coord.start_time /\ coord.now_dur > 0
                   /\ clock = "ending"
                THEN IF coord.up_next # "" THEN "rotate" ELSE "prepare"
                ELSE "sleep"
    /\ prep' = IF cmain' = "prepare" THEN [prep EXCEPT ![0].pc = "start"] ELSE prep
    /\ UNCHANGED <<disk, playlist, vm, clock, coord, lock, cli>>
    /\ UNCHANGED <<state_file, feederVars>>

\* run_coordinator, lines 264-271: save_state, sleep
CoordSleep ==
    /\ cmain = "sleep"
    /\ state_file' = Saved(coord)
    /\ cmain' = "loop"
    /\ UNCHANGED <<disk, playlist, vm, clock, coord, prep, lock, cli>>
    /\ UNCHANGED feederVars

\* rotate_videos, lines 102-108: remove the finished video's file
RotateRemove ==
    /\ cmain = "rotate"
    /\ cmain' = "promote"
    /\ LET old == coord.now_playing
       IN disk' = IF old # "" /\ Exists(disk.root[old])
                  THEN Normalize([disk EXCEPT !.root[old] = NoFile,
                                             !.free = @ + SizeGB(disk.root[old])])
                  ELSE disk
    /\ UNCHANGED <<playlist, vm, clock, coord, prep, lock, cli>>
    /\ UNCHANGED <<state_file, feederVars>>

\* the slot a new threading.Thread takes
FreeSlot == LET idle == {t \in Threads \ {0} : prep[t].pc = "idle"}
            IN {t \in idle : \A u \in idle : t <= u}

\* rotate_videos, lines 110-130: history, promote up_next, start the thread
RotatePromote ==
    /\ cmain = "promote"
    /\ cmain' = "sleep"
    /\ coord' = [coord EXCEPT
           !.history = IF coord.now_playing = "" THEN @
                       ELSE IF @ + 1 > 100 THEN 50 ELSE @ + 1,
           !.now_playing = coord.up_next, !.now_dur = coord.up_dur,
           !.up_next = "", !.up_dur = 0, !.start_time = TRUE]
    /\ clock' = "early"
    /\ \E t \in FreeSlot : prep' = [prep EXCEPT ![t].pc = "start"]
    /\ UNCHANGED <<disk, playlist, vm, lock, cli>>
    /\ UNCHANGED <<state_file, feederVars>>

\* prepare_next_video, line 137: download_next_video()
PrepareCall(t) ==
    /\ prep[t].pc = "start"
    /\ DNVCall(t)
    /\ prep' = [prep EXCEPT ![t].pc = "dl"]
    /\ UNCHANGED <<clock, coord, cmain, cli>>
    /\ UNCHANGED <<state_file, feederVars>>

\* where a prepare_next_video call goes when it returns
PrepareOver(t) == IF t = 0 THEN [PrepIdle EXCEPT !.pc = "done"] ELSE PrepIdle

\* prepare_next_video, lines 137-150: the download returned; on success pick
\* the newest file that is not now_playing's and probe its duration
PrepareScan(t) ==
    /\ prep[t].pc = "dl"
    /\ DNVDone(t)
    /\ lock' = NoThread
    /\ vm' = VMIdle
    /\ IF DNVResult
       THEN \E vs \in SortedByMtime(disk.root) :
              LET others == {i \in 1..Len(vs) : vs[i] # coord.now_playing}
                  pick == vs[CHOOSE i \in others : \A j \in others : j <= i]
              IN IF others = {}
                 THEN prep' = [prep EXCEPT ![t] = PrepareOver(t)]
                 ELSE \E d \in Durations(disk.root[pick]) :
                        prep' = [prep EXCEPT ![t] = [pc |-> "bind", cand |-> pick, dur |-> d]]
       ELSE prep' = [prep EXCEPT ![t] = PrepareOver(t)]
    /\ UNCHANGED <<disk, playlist, clock, coord, cmain, cli>>
    /\ UNCHANGED <<state_file, feederVars>>

\* prepare_next_video, lines 152-161: bind up_next, save_state
PrepareBind(t) ==
    /\ prep[t].pc = "bind"
    /\ coord' = [coord EXCEPT !.up_next = prep[t].cand, !.up_dur = prep[t].dur]
    /\ state_file' = Saved(coord')
    /\ prep' = [prep EXCEPT ![t] = PrepareOver(t)]
    /\ UNCHANGED <<disk, playlist, vm, clock, cmain, lock, cli>>
    /\ UNCHANGED feederVars

\* monitor_playback, line 214: the main thread's own call has returned
CoordPrepared ==
    /\ cmain = "prepare"
    /\ prep[0].pc = "done"
    /\ prep' = [prep EXCEPT ![0] = PrepIdle]
    /\ cmain' = "sleep"
    /\ UNCHANGED <<disk, playlist, vm, clock, coord, lock, cli>>
    /\ UNCHANGED <<state_file, feederVars>>

\* main(), 'cleanup': cleanup_old_video() with keep_files=None, line 93
CleanupCmdStart ==
    /\ cli = {}
    /\ Present(disk.root) # {}
    /\ cli' = Present(disk.root)
    /\ UNCHANGED <<disk, playlist, vm, clock, coord, cmain, prep, lock>>
    /\ UNCHANGED <<state_file, feederVars>>

\* cleanup_old_video, lines 94-97, with the keep_files its caller passed
cleanup_old_video(video, keep_files) ==
    /\ video \in cli
    /\ cli' = IF Exists(disk.root[video]) \/ video \in keep_files THEN cli \ {video} ELSE {}
    /\ disk' = IF video \notin keep_files /\ Exists(disk.root[video])
               THEN Normalize([disk EXCEPT !.root[video] = NoFile,
                                          !.free = @ + SizeGB(disk.root[video])])
               ELSE disk
    /\ UNCHANGED <<playlist, vm, clock, coord, cmain, prep, lock>>
    /\ UNCHANGED <<state_file, feederVars>>

CleanupCmdStep == \E video \in cli : cleanup_old_video(video, {})

\* the process is killed (SIGKILL, power); its threads and memory go with it,
\* a video_manager.py it was waiting for runs on.  A kill inside save_state,
\* between open(..., 'w') at line 41 and the end of json.dump at line 42,
\* leaves a file that holds no complete JSON document
Saving == cmain = "sleep" \/ \E t \in Threads : prep[t].pc = "bind"
CoordCrash ==
    /\ cmain \notin {"off", "down", "dead"}
    /\ cmain' = "down"
    /\ coord' = CoordIdleState
    /\ prep' = [t \in Threads |-> PrepIdle]
    /\ lock' = NoThread
    /\ state_file' \in IF Saving THEN {state_file, Torn} ELSE {state_file}
    /\ UNCHANGED <<disk, playlist, vm, clock, cli>>
    /\ UNCHANGED feederVars

\* a video_manager.py whose parent is gone has ended
CoordReap ==
    /\ lock = NoThread
    /\ VMOver
    /\ vm' = VMIdle
    /\ UNCHANGED <<disk, playlist, clock, coordVars, feederVars>>

\* python stream_coordinator.py run, once more: __init__ and load_state,
\* lines 17-28; json.load of a file that does not parse raises in __init__
CoordRestart ==
    /\ cmain \in {"down", "dead"}
    /\ IF state_file.ok
       THEN /\ coord' = state_file.state
            /\ cmain' = "start"
       ELSE /\ coord' = coord
            /\ cmain' = "dead"
    /\ UNCHANGED <<disk, playlist, vm, clock, prep, lock, cli, state_file>>
    /\ UNCHANGED feederVars

CoordStep ==
    \/ CoordStart
    \/ CoordSetupCall
    \/ CoordSetupReturn
    \/ CoordSetupBind
    \/ CoordMonitor
    \/ CoordSleep
    \/ RotateRemove
    \/ RotatePromote
    \/ CoordPrepared
    \/ \E t \in Threads : PrepareCall(t) \/ PrepareScan(t) \/ PrepareBind(t)

InitCoord ==
    /\ \E f \in FreeChoices : disk = InitDisk(f)
    /\ playlist = InitPlaylist
    /\ vm = VMIdle
    /\ clock = "early"
    /\ coord = CoordIdleState
    /\ state_file = Saved(CoordIdleState)
    /\ cmain = "start"
    /\ prep = [t \in Threads |-> PrepIdle]
    /\ lock = NoThread
    /\ cli = {}
    /\ FeederUnused

NextCoord ==
    \/ CoordStep
    \/ VMStep
    \/ CoordTick
    \/ CleanupCmdStart
    \/ CleanupCmdStep
SpecCoord == InitCoord /\ [][NextCoord]_vars

\* the coordinator left alone, with threads that are scheduled, a
\* video_manager.py that goes on to its end, and time that passes
NextRun == CoordStep \/ VMStep \/ CoordTick
FairCoord ==
    /\ InitCoord /\ [][NextRun]_vars
    /\ WF_vars(CoordStep) /\ WF_vars(VMStep) /\ WF_vars(CoordTick)

\* the same, but a download that has started need never end: the request
\* neither completes nor raises (download_video, lines 160-171)
StuckCoord ==
    /\ InitCoord /\ [][NextRun]_vars
    /\ WF_vars(CoordStep) /\ WF_vars(CoordTick)
    /\ WF_vars(VMStep /\ vm.pc # "downloading")

\* the coordinator, killed and started again
NextRestart ==
    \/ CoordStep
    \/ VMStep
    \/ CoordTick
    \/ CoordCrash
    \/ CoordReap
    \/ CoordRestart
SpecRestart == InitCoord /\ [][NextRestart]_vars

\* --------------------------------------------------------- obs_feeder.py
\* sorted(queue_dir.glob('*.mp4'))[0]: the first name
NameKey(n) == IF n = TempStream THEN 0 ELSE CHOOSE v \in Catalog : DownloadName(v) = n
FirstByName(S) == CHOOSE n \in S : \A m \in S : NameKey(n) <= NameKey(m)

\* a write or unlink of streaming_videos/<name>, and what it does to free space
PutRoot(d, name, f) ==
    [d EXCEPT !.root[name] = f, !.free = @ + SizeGB(d.root[name]) - SizeGB(f)]
\* Path.rename within streaming_videos/: the target, if any, is replaced
RenameRoot(d, from, to) ==
    [d EXCEPT !.root[to] = d.root[from], !.root[from] = NoFile,
              !.free = @ + SizeGB(d.root[to])]
\* an open file follows its inode when the path is renamed
Retarget(fp, from, to) ==
    [t \in FThreads |-> IF fp[t].pc = "copying" /\ fp[t].dst = from
                        THEN [fp[t] EXCEPT !.dst = to] ELSE fp[t]]
\* a new threading.Thread takes the first slot that is idle
FFreeSlot == LET idle == {t \in FThreads \ {0} : fprep[t].pc = "idle"}
             IN {t \in idle : \A u \in idle : t <= u}

\* run_feeder, lines 199-203
FeederStart ==
    /\ fmain = "start"
    /\ fmain' = IF Exists(disk.root[CurrentStream]) THEN "loop" ELSE "init_move"
    /\ UNCHANGED <<disk, playlist, vm, clock, coordVars, fstate, fprep, fcaller>>

\* initialize_stream, lines 154-161: move the other videos to queue/, glob it
InitMove ==
    /\ fmain = "init_move"
    /\ LET moved == Present(disk.root) \ {CurrentStream, NextStream}
           q == [n \in QueueNames |-> IF n \in moved THEN disk.root[n] ELSE disk.queue[n]]
           r == [n \in RootNames |-> IF n \in moved THEN NoFile ELSE disk.root[n]]
           freed == SumGB(disk.queue, moved \cap Present(disk.queue))
       IN /\ disk' = Normalize([disk EXCEPT !.root = r, !.queue = q, !.free = @ + freed])
          /\ fmain' = IF Present(q) = {} THEN "init_vm" ELSE "init_copy"
          /\ fprep' = [fprep EXCEPT ![0].src = IF Present(q) = {} THEN "" ELSE FirstByName(Present(q))]
    /\ UNCHANGED <<playlist, vm, clock, coordVars, fstate, fcaller>>

\* initialize_stream, line 165: subprocess.run video_manager.py maintain
InitMaintain ==
    /\ fmain = "init_vm"
    /\ VMStart("maintain")
    /\ fcaller' = 0
    /\ fmain' = "init_vm_wait"
    /\ UNCHANGED <<disk, playlist, clock, coordVars, fstate, fprep>>

\* initialize_stream, lines 166-168 and 192: glob queue/ again
InitMaintained ==
    /\ fmain = "init_vm_wait"
    /\ fcaller = 0
    /\ VMOver
    /\ vm' = VMIdle
    /\ fcaller' = NoThread
    /\ LET q == Present(disk.queue)
       IN /\ fmain' = IF q = {} THEN "dead" ELSE "init_copy"
          /\ fprep' = [fprep EXCEPT ![0].src = IF q = {} THEN "" ELSE FirstByName(q)]
    /\ UNCHANGED <<disk, playlist, clock, coordVars, fstate>>

\* initialize_stream, line 173: shutil.copy2 opens current_stream.mp4 and writes
InitCopyStart ==
    /\ fmain = "init_copy"
    /\ LET src == disk.queue[fprep[0].src]
       IN disk' = Normalize(PutRoot(disk, CurrentStream,
                                    [vid |-> src.vid, done |-> FALSE, mt |-> Now(disk)]))
    /\ fmain' = "init_copying"
    /\ UNCHANGED <<playlist, vm, clock, coordVars, fstate, fprep, fcaller>>

\* initialize_stream, lines 173-188: the copy completes (copy2 keeps the
\* source's mtime), the original goes to played/, the state is saved, and
\* prepare_next_video is called
InitBind ==
    /\ fmain = "init_copying"
    /\ LET name == fprep[0].src
           src == disk.queue[name]
           d1 == PutRoot(disk, CurrentStream, src)
           d2 == [d1 EXCEPT !.queue[name] = NoFile, !.played[name] = src,
                            !.free = @ + SizeGB(disk.played[name])]
       IN /\ disk' = Normalize(d2)
          /\ \E dur \in Durations(src) :
               fstate' = [fstate EXCEPT !.current_video = name, !.current_duration = dur,
                                        !.started_at = TRUE]
    /\ clock' = "early"
    /\ fprep' = [fprep EXCEPT ![0] = [FPrepIdle EXCEPT !.pc = "start"]]
    /\ fmain' = "init_prepare"
    /\ UNCHANGED <<playlist, vm, coordVars, fcaller>>

\* initialize_stream, lines 188-190 (an exception of the call ends the process)
InitPrepared ==
    /\ fmain = "init_prepare"
    /\ fprep[0].pc \in {"done", "raised"}
    /\ fmain' = IF fprep[0].pc = "done" THEN "loop" ELSE "dead"
    /\ fprep' = [fprep EXCEPT ![0] = FPrepIdle]
    /\ UNCHANGED <<disk, playlist, vm, clock, coordVars, fstate, fcaller>>

\* python obs_feeder.py run, once more, after the process ended
FeederRerun ==
    /\ fmain \in {"dead", "stopped"}
    /\ fmain' = "start"
    /\ UNCHANGED <<disk, playlist, vm, clock, coordVars, fstate, fprep, fcaller>>

\* monitor_playback, lines 118-148, as called at run_feeder line 213
PrefetchDue ==
    /\ fstate.current_video # "" /\ fstate.started_at /\ fstate.current_duration > 0
    /\ clock # "early"
    /\ ~Exists(disk.root[NextStream])
\* an end-of-video test that does not look at the duration
SwapDueAnyDuration ==
    /\ fstate.current_video # "" /\ fstate.started_at
    /\ clock = "ending"
SwapDue ==
    /\ fstate.current_video # "" /\ fstate.started_at /\ fstate.current_duration > 0
    /\ clock = "ending"
FeederMonitor ==
    /\ fmain = "loop"
    /\ IF PrefetchDue
       THEN \E t \in FFreeSlot : fprep' = [fprep EXCEPT ![t].pc = "start"]
       ELSE fprep' = fprep
    /\ fmain' = IF SwapDue THEN "swap" ELSE "tidy"
    /\ UNCHANGED <<disk, playlist, vm, clock, coordVars, fstate, fcaller>>

\* swap_videos, lines 95-97
SwapCheck ==
    /\ fmain = "swap"
    /\ fmain' = IF Exists(disk.root[NextStream]) THEN "swap_out" ELSE "tidy"
    /\ UNCHANGED <<disk, playlist, vm, clock, coordVars, fstate, fprep, fcaller>>

\* swap_videos, lines 102-106: move current to temp
SwapOut ==
    /\ fmain = "swap_out"
    /\ fmain' = "swap_in"
    /\ IF Exists(disk.root[CurrentStream])
       THEN /\ disk' = Normalize(RenameRoot(disk, CurrentStream, TempStream))
            /\ fprep' = Retarget(Retarget(fprep, TempStream, ""), CurrentStream, TempStream)
       ELSE UNCHANGED <<disk, fprep>>
    /\ UNCHANGED <<playlist, vm, clock, coordVars, fstate, fcaller>>

\* swap_videos, lines 108-109: move next to current; rename raises when
\* next_stream.mp4 is gone, and run_feeder's except (246-248) sleeps
SwapIn ==
    /\ fmain = "swap_in"
    /\ IF Exists(disk.root[NextStream])
       THEN /\ disk' = Normalize(RenameRoot(disk, NextStream, CurrentStream))
            /\ fprep' = Retarget(Retarget(fprep, CurrentStream, ""), NextStream, CurrentStream)
            /\ fmain' = "swap_clean"
       ELSE /\ fmain' = "sleep"
            /\ UNCHANGED <<disk, fprep>>
    /\ UNCHANGED <<playlist, vm, clock, coordVars, fstate, fcaller>>

\* swap_videos, lines 111-116: clean up temp, return True
SwapClean ==
    /\ fmain = "swap_clean"
    /\ fmain' = "swapped"
    /\ disk' = Normalize(PutRoot(disk, TempStream, NoFile))
    /\ fprep' = Retarget(fprep, TempStream, "")
    /\ UNCHANGED <<playlist, vm, clock, coordVars, fstate, fcaller>>

\* run_feeder, lines 215-222: the state for the new video, and a prepare thread
FeederSwapped ==
    /\ fmain = "swapped"
    /\ fmain' = "tidy"
    /\ \E dur \in Durations(disk.root[CurrentStream]) :
         fstate' = [fstate EXCEPT !.current_duration = dur, !.started_at = TRUE,
                                  !.total_played = @ + 1]
    /\ clock' = "early"
    /\ \E t \in FFreeSlot : fprep' = [fprep EXCEPT ![t].pc = "start"]
    /\ UNCHANGED <<disk, playlist, vm, coordVars, fcaller>>

\* run_feeder, lines 224-238: clean played/ when it holds more than
\* PLAYED_LIMIT files, keeping PLAYED_KEEP; look at the queue's length
PLAYED_LIMIT == 10
PLAYED_KEEP == 5
QUEUE_LOW == 2
FeederTidy ==
    /\ fmain = "tidy"
    /\ LET played == Present(disk.played)
       IN IF Cardinality(played) > PLAYED_LIMIT
          THEN \E keep \in {k \in SUBSET played : Cardinality(k) = PLAYED_KEEP} :
                 disk' = [disk EXCEPT
                            !.played = [n \in QueueNames |->
                                          IF n \in keep THEN disk.played[n] ELSE NoFile],
                            !.free = @ + SumGB(disk.played, played \ keep)]
          ELSE disk' = disk
    /\ fmain' = IF Cardinality(Present(disk.queue)) < QUEUE_LOW THEN "tidy_vm" ELSE "sleep"
    /\ UNCHANGED <<playlist, vm, clock, coordVars, fstate, fprep, fcaller>>

\* run_feeder, line 238: subprocess.run video_manager.py maintain
FeederMaintain ==
    /\ fmain = "tidy_vm"
    /\ VMStart("maintain")
    /\ fcaller' = 0
    /\ fmain' = "tidy_wait"
    /\ UNCHANGED <<disk, playlist, clock, coordVars, fstate, fprep>>

FeederMaintained ==
    /\ fmain = "tidy_wait"
    /\ fcaller = 0
    /\ VMOver
    /\ vm' = VMIdle
    /\ fcaller' = NoThread
    /\ fmain' = "sleep"
    /\ UNCHANGED <<disk, playlist, clock, coordVars, fstate, fprep>>

\* run_feeder, line 241 (or 248): time.sleep
FeederSleep ==
    /\ fmain = "sleep"
    /\ fmain' = "loop"
    /\ UNCHANGED <<disk, playlist, vm, clock, coordVars, fstate, fprep, fcaller>>

\* the videos the feeder is followed through: the clock stops after the last
MaxPlayed == 2
FeederTick ==
    /\ fstate.started_at
    /\ fstate.total_played < MaxPlayed
    /\ Tick
    /\ UNCHANGED <<disk, playlist, vm, coordVars, feederVars>>

\* where a prepare_next_video call goes when it returns, or raises
FPOver(t, how) == IF t = 0 THEN [FPrepIdle EXCEPT !.pc = how] ELSE FPrepIdle

\* prepare_next_video, lines 71-80: glob queue/
FPGlob(t) ==
    /\ fprep[t].pc = "start"
    /\ LET q == Present(disk.queue)
       IN fprep' = [fprep EXCEPT ![t] = IF q = {} THEN [@ EXCEPT !.pc = "vm_call"]
                                        ELSE [@ EXCEPT !.pc = "copy", !.src = FirstByName(q)]]
    /\ UNCHANGED <<disk, playlist, vm, clock, coordVars, fstate, fmain, fcaller>>

\* prepare_next_video, line 76: subprocess.run video_manager.py maintain
FPMaintain(t) ==
    /\ fprep[t].pc = "vm_call"
    /\ VMStart("maintain")
    /\ fcaller' = t
    /\ fprep' = [fprep EXCEPT ![t].pc = "vm_wait"]
    /\ UNCHANGED <<disk, playlist, clock, coordVars, fstate, fmain>>

\* prepare_next_video, lines 77-80 and 91: glob queue/ again
FPMaintained(t) ==
    /\ fprep[t].pc = "vm_wait"
    /\ fcaller = t
    /\ VMOver
    /\ vm' = VMIdle
    /\ fcaller' = NoThread
    /\ LET q == Present(disk.queue)
       IN fprep' = [fprep EXCEPT ![t] = IF q = {} THEN FPOver(t, "done")
                                        ELSE [@ EXCEPT !.pc = "copy", !.src = FirstByName(q)]]
    /\ UNCHANGED <<disk, playlist, clock, coordVars, fstate, fmain>>

\* prepare_next_video, line 84: shutil.copy2 opens next_stream.mp4 (truncating
\* what is there) and writes; it raises when the queue file is gone
FPCopyStart(t) ==
    /\ fprep[t].pc = "copy"
    /\ LET src == disk.queue[fprep[t].src]
       IN IF Exists(src)
          THEN /\ disk' = Normalize(PutRoot(disk, NextStream,
                                      [vid |-> src.vid, done |-> FALSE, mt |-> Now(disk)]))
               /\ fprep' = [fprep EXCEPT ![t] = [@ EXCEPT !.pc = "copying", !.dst = NextStream]]
          ELSE /\ fprep' = [fprep EXCEPT ![t] = FPOver(t, "raised")]
               /\ UNCHANGED disk
    /\ UNCHANGED <<playlist, vm, clock, coordVars, fstate, fmain, fcaller>>

\* the other threads still writing the file this one writes
CoWriters(t) == {u \in FThreads \ {t} : fprep[u].pc = "copying" /\ fprep[u].dst = fprep[t].dst}

\* prepare_next_video, line 84: the last bytes go to the file that was opened,
\* wherever it has been renamed to; then copystat on the path next_stream.mp4,
\* which raises when the path or the queue file is gone
FPCopyFinish(t) ==
    /\ fprep[t].pc = "copying"
    /\ LET src == disk.queue[fprep[t].src]
           dst == fprep[t].dst
           d1 == IF dst # "" /\ Exists(disk.root[dst])
                 THEN PutRoot(disk, dst, [disk.root[dst] EXCEPT
                                            !.done = (CoWriters(t) = {}), !.mt = Now(disk)])
                 ELSE disk
           ok == Exists(src) /\ Exists(d1.root[NextStream])
           d2 == IF ok THEN [d1 EXCEPT !.root[NextStream].mt = src.mt] ELSE d1
       IN /\ disk' = Normalize(d2)
          /\ fprep' = [fprep EXCEPT ![t] = IF ok THEN [@ EXCEPT !.pc = "move", !.dst = ""]
                                           ELSE FPOver(t, "raised")]
    /\ UNCHANGED <<playlist, vm, clock, coordVars, fstate, fmain, fcaller>>

\* prepare_next_video, lines 86-89: shutil.move of the original to played/
FPMove(t) ==
    /\ fprep[t].pc = "move"
    /\ LET name == fprep[t].src
           src == disk.queue[name]
       IN IF Exists(src)
          THEN /\ disk' = Normalize([disk EXCEPT !.queue[name] = NoFile, !.played[name] = src,
                                                !.free = @ + SizeGB(disk.played[name])])
               /\ fprep' = [fprep EXCEPT ![t] = FPOver(t, "done")]
          ELSE /\ fprep' = [fprep EXCEPT ![t] = FPOver(t, "raised")]
               /\ UNCHANGED disk
    /\ UNCHANGED <<playlist, vm, clock, coordVars, fstate, fmain, fcaller>>

FeederStep ==
    \/ FeederStart
    \/ InitMove
    \/ InitMaintain
    \/ InitMaintained
    \/ InitCopyStart
    \/ InitBind
    \/ InitPrepared
    \/ FeederRerun
    \/ FeederMonitor
    \/ SwapCheck
    \/ SwapOut
    \/ SwapIn
    \/ SwapClean
    \/ FeederSwapped
    \/ FeederTidy
    \/ FeederMaintain
    \/ FeederMaintained
    \/ FeederSleep
    \/ FeederTick
    \/ \E t \in FThreads :
         FPGlob(t) \/ FPMaintain(t) \/ FPMaintained(t) \/ FPCopyStart(t) \/ FPCopyFinish(t)
         \/ FPMove(t)

\* streaming_videos/ and playlist.json as earlier runs of video_manager.py
\* maintain left them: the videos of `held`, complete, indexed and queued
UserPlaylist(held) ==
    [InitPlaylist EXCEPT !.downloaded = held,
                         !.queue = CHOOSE q \in Perms(held) : \A i \in 1..Len(q) - 1 : q[i] < q[i + 1]]
UserDisk(free, held) ==
    [InitDisk(free) EXCEPT
        !.root = [n \in RootNames |->
                    IF \E v \in held : DownloadName(v) = n
                    THEN [vid |-> NameKey(n), done |-> TRUE, mt |-> Cardinality({u \in held : u <= NameKey(n)})]
                    ELSE NoFile]]
FeederStarts == {[free |-> 12, held |-> {}], [free |-> 12, held |-> Catalog],
                 [free |-> 40, held |-> Catalog]}
InitFeeder ==
    /\ \E s \in FeederStarts : /\ disk = UserDisk(s.free, s.held)
                                /\ playlist = UserPlaylist(s.held)
    /\ vm = VMIdle
    /\ clock = "early"
    /\ CoordUnused
    /\ fstate = FeederIdleState
    /\ fmain = "start"
    /\ fprep = [t \in FThreads |-> FPrepIdle]
    /\ fcaller = NoThread

NextFeeder == FeederStep \/ VMStep
SpecFeeder == InitFeeder /\ [][NextFeeder]_vars

\* run_feeder, lines 243-245: Ctrl-C during the sleep ends the loop (the
\* process ends once its prepare threads have returned)
FeederInterrupt ==
    /\ fmain = "sleep"
    /\ \A t \in FThreads : fprep[t].pc = "idle"
    /\ fcaller = NoThread
    /\ fmain' = "stopped"
    /\ UNCHANGED <<disk, playlist, vm, clock, coordVars, fstate, fprep, fcaller>>

\* main(), lines 298-299: python obs_feeder.py swap, while no feeder runs:
\* swap_videos (lines 95-116) and nothing else
SwapCommand ==
    /\ fmain = "stopped"
    /\ disk' = IF Exists(disk.root[NextStream])
               THEN Normalize(PutRoot(RenameRoot(RenameRoot(disk, CurrentStream, TempStream),
                                                 NextStream, CurrentStream),
                                      TempStream, NoFile))
               ELSE disk
    /\ UNCHANGED <<playlist, vm, clock, coordVars, feederVars>>

\* the feeder with its one-shot commands
NextCommands == NextFeeder \/ FeederInterrupt \/ SwapCommand
SpecCommands == InitFeeder /\ [][NextCommands]_vars

\* ------------------------------------------------- video_manager.py alone

InitVM ==
    /\ \E f \in FreeChoices : disk = InitDisk(f)
    /\ playlist = InitPlaylist
    /\ vm = VMIdle
    /\ clock = "early"
    /\ CoordUnused
    /\ FeederUnused

\* get_next_video, lines 316-317: the played list is cut when it is too long
PLAYED_MAX == 200
PLAYED_TRIM == 100
\* the `next` commands the process is followed through
MaxHistory == 2

\* get_next_video, lines 300-331: refill the queue from the index (shuffled)
\* when it is empty, pop its head, make it current, append it to played, save
VMNext ==
    /\ vm.pc = "next"
    /\ \E q \in IF playlist.queue # <<>> THEN {playlist.queue}
                 ELSE Perms(playlist.downloaded) :
         IF q = <<>>
         THEN playlist' = playlist
         ELSE LET played == Append(playlist.played, Head(q))
              IN playlist' = [playlist EXCEPT
                                !.queue = Tail(q), !.current = Head(q),
                                !.played = IF Len(played) > PLAYED_MAX
                                           THEN Last(played, PLAYED_TRIM) ELSE played]
    /\ vm' = VMEnd(vm, "exit")
    /\ UNCHANGED <<disk, notVM>>

\* main(): 'maintain' (also the default), 'cleanup', 'next'
CLINext ==
    /\ Len(playlist.played) < MaxHistory
    /\ VMStart("next")
    /\ UNCHANGED <<disk, playlist, notVM>>
CLIMaintain == VMStart("maintain") /\ UNCHANGED <<disk, playlist, notVM>>
CLICleanup == VMStart("cleanup") /\ UNCHANGED <<disk, playlist, notVM>>
CLIExit ==
    /\ vm.pc \in {"exit", "crashed"}
    /\ vm' = VMIdle
    /\ UNCHANGED <<disk, playlist, notVM>>

NextVM == CLIMaintain \/ CLICleanup \/ CLINext \/ CLIExit \/ VMStep \/ VMNext
SpecVM == InitVM /\ [][NextVM]_vars

\* ================================================================ claims

\* the files the rotation engine has bound: now_playing's and up_next's
Protected == {coord.now_playing, coord.up_next} \ {""}
Removed == {n \in RootNames : Exists(disk.root[n]) /\ ~Exists(disk'.root[n])}

\* C2: no cleanup step (VideoManager.cleanup_old_videos,
\* StreamCoordinator.cleanup_old_video) deletes a file that is bound to
\* NowPlaying or UpNext at that moment.
C2_EvictionSparesBound ==
    [][(VMCleanupStep \/ CleanupCmdStep) => Removed \cap Protected = {}]_vars

\* C3: a rotation attempted while UpNext is bound but its file is missing is
\* deferred: it deletes no file and leaves the NowPlaying binding as it was.
NextMissing == coord.up_next # "" /\ ~Exists(disk.root[coord.up_next])
C3_MissingNextDefersSwap ==
    [][(NextMissing /\ (RotateRemove \/ RotatePromote))
        => (Removed = {} /\ coord'.now_playing = coord.now_playing)]_vars

\* C8: the budget is hard: no step of the program takes the store from within
\* its limits (free space above MIN_FREE_SPACE_GB, videos below MAX_STORAGE_GB)
\* to past one of them.
WithinBudget(d) == free_gb(d) > MIN_FREE_SPACE_GB /\ video_gb(d) < MAX_STORAGE_GB
C8_BudgetIsHard == [][WithinBudget(disk) => WithinBudget(disk')]_vars

\* C9: at every admission decision of download_video, the decision taken is
\* canAdmit(candidateBytes) = free - candidate > reserve /\ held + candidate < budget.
canAdmit(d, candidateGB) ==
    /\ free_gb(d) - candidateGB > MIN_FREE_SPACE_GB
    /\ video_gb(d) + candidateGB < MAX_STORAGE_GB
C9_AdmitIffRoomForCandidate ==
    (vm.pc = "dl_loop" /\ vm.cands # <<>>)
        => (can_download(disk) <=> canAdmit(disk, ItemGB(Head(vm.cands))))

\* C10: whenever no video_manager command is running, the held files are
\* exactly the files of the index entries, and heldBytes is the sum of the
\* indexed items' sizes.
RECURSIVE SumItems(_)
SumItems(ids) ==
    IF ids = {} THEN 0
    ELSE LET v == CHOOSE x \in ids : TRUE IN ItemGB(v) + SumItems(ids \ {v})
C10_HeldIsIndexed ==
    vm.pc = "idle" =>
        /\ Present(disk.root) = {DownloadName(v) : v \in playlist.downloaded}
        /\ video_gb(disk) = SumItems(playlist.downloaded)

\* ---- obs_feeder.py claims
Content(f) == [vid |-> f.vid, done |-> f.done]

\* C1: once initialize_stream has succeeded, no step of swap_videos leaves
\* current_stream.mp4 missing: a reader sampling the path between two of the
\* swap's filesystem operations always finds it.
C1_FixedPathNeverMissing ==
    [][((SwapOut \/ SwapIn \/ SwapClean) /\ Exists(disk.root[CurrentStream]))
        => Exists(disk'.root[CurrentStream])]_vars

\* C4: when the rename of next_stream.mp4 fails after current_stream.mp4 was
\* moved to temp_stream.mp4, the state in which swap_videos has failed has
\* current_stream.mp4 back in place, with the content temp_stream.mp4 held.
SwapFails == fmain = "swap_in" /\ fmain' = "sleep"
C4_FailedSwapRestoresCurrent ==
    [][(SwapFails /\ Exists(disk.root[TempStream]))
        => (/\ Exists(disk'.root[CurrentStream])
            /\ Content(disk'.root[CurrentStream]) = Content(disk.root[TempStream]))]_vars

\* C5: a successful swap_videos leaves at current_stream.mp4 the content
\* next_stream.mp4 had when it was renamed, and that content is still there,
\* with next_stream.mp4 and temp_stream.mp4 gone, when swap_videos returns.
C5_SwapPublishesNext ==
    [][/\ (SwapIn /\ fmain' = "swap_clean")
            => (/\ Content(disk'.root[CurrentStream]) = Content(disk.root[NextStream])
                /\ ~Exists(disk'.root[NextStream]))
       /\ fmain = "swap_clean"
            => (/\ Content(disk'.root[CurrentStream]) = Content(disk.root[CurrentStream])
                /\ ~Exists(disk'.root[NextStream])
                /\ fmain' = "swapped" => ~Exists(disk'.root[TempStream]))]_vars

\* C6: swap_videos never renames next_stream.mp4 into place while a
\* prepare_next_video thread is still writing it.
WritersOf(name) == {t \in FThreads : fprep[t].pc = "copying" /\ fprep[t].dst = name}
C6_SwapOnlyOfCompleteCopy ==
    [][(SwapIn /\ fmain' = "swap_clean")
        => (WritersOf(NextStream) = {} /\ disk.root[NextStream].done)]_vars

\* C7: at most one prepare_next_video call is in progress at any time.
InFlight == {t \in FThreads : fprep[t].pc \notin {"idle", "done", "raised"}}
C7_OnePrefetchAtATime == Cardinality(InFlight) <= 1

\* ---- eviction, restart and rotation claims
\* C11: evicting a file that is already gone (another cleanup or a rotation
\* removed it first) is a no-op that succeeds: cleanup_old_videos raises no
\* error and leaves the directory and the index as they were.
EvictsMissing ==
    /\ vm.pc = "cleanup_loop"
    /\ ~(vm.keep # "" /\ Head(vm.videos) = vm.keep)
    /\ ~can_download(disk)
    /\ ~Exists(disk.root[Head(vm.videos)])
C11_EvictionIsIdempotent ==
    [][(VMCleanupStep /\ EvictsMissing)
        => (vm'.pc # "crashed" /\ disk' = disk /\ playlist' = playlist)]_vars

\* C12: cleanup_old_videos deletes a file only while the budget check fails,
\* the file it deletes is the oldest one that is not protected, and when it
\* returns the budget check holds or no unprotected file is left.
Evictable(d, pl) == Present(d.root) \ {CurrentFile(pl)}
C12_ReclaimOldestFirst ==
    [][(VMCleanupBegin \/ VMCleanupStep)
        => /\ \A n \in Removed :
                /\ ~can_download(disk)
                /\ n \in Evictable(disk, playlist)
                /\ \A m \in Evictable(disk, playlist) : disk.root[n].mt <= disk.root[m].mt
           /\ vm'.pc = "cleaned"
                => (can_download(disk') \/ Evictable(disk', playlist') = {})]_vars
\* the loop has deleted the oldest file and finds the budget check holding
\* again while a newer unprotected file is still held
C12_StopsWhenEnough ==
    /\ vm.pc = "cleanup_loop" /\ vm.deleted
    /\ can_download(disk)
    /\ Evictable(disk, playlist) # {}

\* C13: when the coordinator is started again over a state file that parses,
\* it has a now_playing binding exactly when the file holds one whose video
\* file is still on disk; a binding whose file is gone is dropped and the
\* coordinator starts with no now_playing.
C13_RestartRecoversLiveBinding ==
    [][(CoordRestart /\ state_file.ok)
        => LET bound == state_file.state.now_playing
           IN IF bound # "" /\ Exists(disk.root[bound])
              THEN coord'.now_playing = bound
              ELSE coord'.now_playing = ""]_vars

\* C14: when run_feeder has recorded a successful swap, the saved state's
\* current_video names the video whose content is now at current_stream.mp4
\* (the one that was prepared as next), and started_at is set anew.
C14_SwapRebindsNowPlaying ==
    [][FeederSwapped
        => /\ Exists(disk'.root[CurrentStream])
                => fstate'.current_video = DownloadName(disk'.root[CurrentStream].vid)
           /\ fstate'.started_at /\ clock' = "early"]_vars

\* C15: total_played goes up by one when a successful swap_videos is recorded,
\* every successful swap_videos is recorded, and no other step changes it.
SwapSucceeds ==
    \/ SwapClean
    \/ SwapCommand /\ Exists(disk.root[NextStream])
C15_TotalPlayedCountsSwaps ==
    [][/\ SwapSucceeds => fmain' = "swapped"
       /\ fstate'.total_played = fstate.total_played + (IF FeederSwapped THEN 1 ELSE 0)]_vars

\* C16: a rotation deletes the finished video's file only once up_next has
\* been promoted: no step of rotate_videos removes the file that now_playing
\* is still bound to.
C16_RetireAfterPromote ==
    [][(RotateRemove \/ RotatePromote) => coord.now_playing \notin Removed]_vars

\* C17: download_lock serialises every change of streaming_videos/: the
\* rotation does not delete a file while a prepare_next_video thread holds
\* the lock and its video_manager.py run is in its eviction loop or is
\* writing a download.
LockedMutation == lock # NoThread /\ vm.pc \in {"cleanup_loop", "downloading"}
C17_RotationDeleteUnderLock ==
    [][(RotateRemove /\ Removed # {}) => ~LockedMutation]_vars

\* C18: whatever happens to the process, streaming_state.json always holds a
\* complete record (the one saved last): a kill in the middle of save_state
\* never leaves a file that does not parse.
C18_StateFileAlwaysComplete == state_file.ok

\* C19: a prefetch that returned without binding up_next does not stop the
\* monitoring loop, and is tried again: from any state where the loop runs
\* with a playing video, no up_next and no prepare_next_video call under way,
\* a later monitor_playback calls prepare_next_video again.
NoNext ==
    /\ cmain \in {"loop", "sleep"}
    /\ coord.now_playing # "" /\ coord.start_time /\ coord.now_dur > 0
    /\ coord.up_next = ""
    /\ \A t \in Threads : prep[t].pc = "idle"
C19_FailedPrefetchRetried == NoNext ~> (cmain = "prepare")
\* after a rotation whose thread bound nothing, the main thread is in the
\* prepare_next_video call that monitor_playback made
C19_RetryUnderWay ==
    /\ cmain = "prepare" /\ prep[0].pc = "dl"
    /\ coord.history > 0 /\ coord.up_next = ""
    /\ \A t \in Threads \ {0} : prep[t].pc = "idle"

\* C20: the monitoring loop never waits for ever: when the main thread has
\* called prepare_next_video from monitor_playback, it gets back to the top
\* of its loop even if the download it started never completes.
C20_LoopNeverStuck == (cmain = "prepare") ~> (cmain = "loop")

\* ---- binding, trigger and index claims
\* C21: in every state of the coordinator, whatever the interleaving of
\* rotations and prepare_next_video calls, an up_next binding names a file
\* other than the one now_playing is bound to.
C21_UpNextDiffersFromNowPlaying ==
    coord.up_next # "" => coord.up_next # coord.now_playing

\* C22: the coordinator keeps only the current and the next video: in every
\* state, and so after the initial setup and after every rotation and
\* prefetch, streaming_videos/ holds at most VIDEOS_TO_MAINTAIN video files.
C22_AtMostTwoVideos == video_count(disk) <= VIDEOS_TO_MAINTAIN
\* a rotation has taken place, its prefetch has bound up_next, and the
\* directory is full again
C22_RotatedAndRefilled ==
    /\ coord.history > 0 /\ coord.up_next # ""
    /\ \A t \in Threads : prep[t].pc = "idle"
    /\ video_count(disk) = VIDEOS_TO_MAINTAIN

\* C23: a monitoring cycle of the coordinator triggers the rotation exactly
\* when the playing video is within the lead window of its end and up_next is
\* ready (bound to a complete file that is on disk); otherwise it triggers
\* none; and the cycle itself never changes the now_playing binding.
SwapWindow ==
    /\ coord.now_playing # "" /\ coord.start_time /\ coord.now_dur > 0
    /\ clock = "ending"
NextReady ==
    /\ coord.up_next # ""
    /\ Exists(disk.root[coord.up_next]) /\ disk.root[coord.up_next].done
C23_SwapExactlyWhenDueAndReady ==
    [][CoordMonitor => /\ (cmain' = "rotate") <=> (SwapWindow /\ NextReady)
                       /\ coord'.now_playing = coord.now_playing]_vars

\* C24: while the probed duration of the video the feeder plays is zero, no
\* monitoring cycle starts a prepare_next_video thread or a swap for it,
\* however far the clock has run.
SwapPcs == {"swap", "swap_out", "swap_in", "swap_clean", "swapped"}
C24_ZeroDurationDisablesTrigger ==
    [][(fstate.current_video # "" /\ fstate.current_duration = 0)
        => /\ fmain' \notin SwapPcs
           /\ FeederMonitor => fprep' = fprep]_vars
\* the video of unknown duration has run to its end with no next file
\* prepared, and a monitoring cycle has gone by without triggering anything
C24_PastTheEndUntriggered ==
    /\ fstate.current_video # "" /\ fstate.started_at /\ fstate.current_duration = 0
    /\ clock = "ending" /\ ~Exists(disk.root[NextStream])
    /\ fmain = "tidy"
    /\ \A t \in FThreads : fprep[t].pc = "idle"

\* C25: a video file is at its final path in streaming_videos/, where glob
\* finds it, only once its download is complete: no state shows a partly
\* written download there.
C25_NoPartialAtFinalPath ==
    \A v \in Catalog :
        Exists(disk.root[DownloadName(v)]) => disk.root[DownloadName(v)].done

\* C26: when the budget check is false as download_video is entered, it
\* returns at once: no download is started, no file is created or changed,
\* and the index and the playlist are left as they were.
Rejecting == vm.pc = "dl_loop" /\ ~can_download(disk)
C26_RejectChangesNothing ==
    [][Rejecting => /\ disk' = disk /\ playlist' = playlist
                    /\ vm'.pc \in {"dl_loop", "exit"}]_vars
\* maintain_library has candidates to download and the budget check fails
C26_RejectReached == Rejecting /\ vm.cmd = "maintain" /\ vm.cands # <<>>

\* ---- the played list of playlist.json near its cap

\* a played list of n plays that went round the catalog, starting after k
LongPlayed(n, k) == [i \in 1..n |-> ((i + k) % NumVideos) + 1]

\* playlist.json of a library that has been played for a long time: the queue
\* still holds the catalog in some order, the played list is close to its cap
InitHistory ==
    /\ \E f \in FreeChoices : disk = InitDisk(f)
    /\ \E n \in (PLAYED_MAX - 2)..PLAYED_MAX, k \in 0..(NumVideos - 1), q \in Perms(Catalog) :
         playlist = [current |-> LongPlayed(n, k)[n], queue |-> q,
                     played |-> LongPlayed(n, k), downloaded |-> {}]
    /\ vm = VMIdle
    /\ clock = "early"
    /\ CoordUnused
    /\ FeederUnused

\* main(): the 'next' command, as long as the queue has something to pop
CLIPlay ==
    /\ playlist.queue # <<>>
    /\ VMStart("next")
    /\ UNCHANGED <<disk, playlist, notVM>>

NextHistory == CLIPlay \/ VMNext \/ CLIExit
SpecHistory == InitHistory /\ [][NextHistory]_vars

IsSuffix(a, b) ==
    /\ Len(a) <= Len(b)
    /\ \A i \in 1..Len(a) : a[i] = b[Len(b) - Len(a) + i]

C28_CandidateNotHeld ==
    (vm.pc = "dl_loop" /\ vm.cands # <<>>)
        => /\ Head(vm.cands) \notin playlist.downloaded
           /\ Head(vm.cands) \notin Range(Last(playlist.played, 100))


\* ---- the feeder interrupted while it initializes

\* run_feeder, lines 199-203: initialize_stream runs outside the loop's try, so
\* a KeyboardInterrupt during it ends the process where it is; the files stay
\* as they are and feeder_state.json as it was last saved
InitInterrupt ==
    /\ fmain \in {"init_copy", "init_copying", "init_prepare"}
    /\ fcaller = NoThread
    /\ fprep[0].pc \notin {"vm_wait", "done", "raised"}
    /\ fmain' = "stopped"
    /\ fprep' = [fprep EXCEPT ![0] = FPrepIdle]
    /\ UNCHANGED <<disk, playlist, vm, clock, coordVars, fstate, fcaller>>

NextInterrupted == NextFeeder \/ InitInterrupt
SpecInterrupted == InitFeeder /\ [][NextInterrupted]_vars

\* C29: no prepare_next_video call overwrites a next_stream.mp4 that is
\* already prepared with the content of another video (which would then be
\* retired to played/ without ever becoming current_stream.mp4)
C29_PreparedNextNotOverwritten ==
    [][((\E t \in FThreads : FPCopyStart(t))
        /\ Exists(disk.root[NextStream]) /\ disk.root[NextStream].done
        /\ Exists(disk'.root[NextStream]))
        => disk'.root[NextStream].vid = disk.root[NextStream].vid]_vars

\* C30: between two commands of video_manager.py, every identifier in the
\* playlist's queue, and the current identifier, has an entry in the
\* downloaded index and its file in streaming_videos/
Playable(v) == v \in playlist.downloaded /\ Exists(disk.root[DownloadName(v)])
C30_QueueAndCurrentPlayable ==
    vm.pc = "idle" =>
        /\ \A v \in Range(playlist.queue) : Playable(v)
        /\ playlist.current # 0 => Playable(playlist.current)
====
